---- MODULE Spec2Model ----
(***************************************************************************)
(* Model of the job-application form (src/unnamed/part_001): the question  *)
(* selector getJobSpecificQuestions and the two-step submission workflow   *)
(* of the JobApplicationForm component.                                    *)
(*                                                                         *)
(* JavaScript strings are TLA+ strings; Len, SubSeq and \o act on them     *)
(* character by character.                                                 *)
(***************************************************************************)
EXTENDS Integers, Sequences, FiniteSets, TLC

VARIABLES
    job,                  \* the job prop: [id, title, type, department]
    jobSpecificQuestions, \* line 261: getJobSpecificQuestions(job) of the current render
    open,                 \* the open prop of the dialog
    cvFile,               \* useState<File | null>(null), line 253
    currentStep,          \* useState(1), line 254
    basicInfo,            \* useState<BasicInfoData | null>(null), line 255
    basicForm,            \* values of the Step-1 form (useForm, line 265)
    jobSpecificForm,      \* values of the Step-2 form: question text -> answer (line 280)
    status,               \* state of the submitApplication mutation (isPending is status = "pending")
    inflight,             \* requests to POST /api/applications that were sent and have no response yet
    toast,                \* the latest call of toast (useToast, line 250)
    jobs,                 \* storage: the job collection, id -> job row
    applications,         \* storage: the application collection, id -> application row
    returned,             \* storage: what the latest storage call returned
    lastAccepted,         \* history: the data handed to the latest onBasicInfoSubmit
    lastResponse,         \* history: the response (or failure) of the latest finished request
    lastOp                \* history: the operation that produced this state

vars == <<job, jobSpecificQuestions, open, cvFile, currentStep, basicInfo, basicForm,
          jobSpecificForm, status, inflight, toast, jobs, applications, returned,
          lastAccepted, lastResponse, lastOp>>

\* The variables of the storage layer (src/server/storage.ts).
storageVars == <<jobs, applications, returned>>

(***************************************************************************)
(* Strings                                                                 *)
(***************************************************************************)

\* undefined, where a string is expected: an optional property that is absent.
undefined == "<undefined>"

\* undefined, where an object is expected: an argument or a file that is absent.
undefinedObject == [undefined |-> TRUE]

\* The value null of a useState cell that holds an object.
null == [null |-> TRUE]

UpperToLower ==
    [A |-> "a", B |-> "b", C |-> "c", D |-> "d", E |-> "e", F |-> "f", G |-> "g",
     H |-> "h", I |-> "i", J |-> "j", K |-> "k", L |-> "l", M |-> "m", N |-> "n",
     O |-> "o", P |-> "p", Q |-> "q", R |-> "r", S |-> "s", T |-> "t", U |-> "u",
     V |-> "v", W |-> "w", X |-> "x", Y |-> "y", Z |-> "z"]

\* String.prototype.toLowerCase, one character at a time.
RECURSIVE toLowerCase(_)
toLowerCase(s) ==
    IF Len(s) = 0 THEN ""
    ELSE LET c == SubSeq(s, 1, 1)
         IN  (IF c \in DOMAIN UpperToLower THEN UpperToLower[c] ELSE c)
                 \o toLowerCase(SubSeq(s, 2, Len(s)))

\* String.prototype.includes: sub occurs in s as a contiguous substring.
includes(s, sub) ==
    \E i \in 0..(Len(s) - Len(sub)) : SubSeq(s, i + 1, i + Len(sub)) = sub

\* prop?.toLowerCase() || '' (lines 62-64): an absent or empty property gives ''.
lowerOrEmpty(p) ==
    IF p = undefined THEN "" ELSE toLowerCase(p)

(***************************************************************************)
(* The question sets of getJobSpecificQuestions                            *)
(***************************************************************************)

VideoQuestions ==
    << [question |-> "Proficiency at handling DSLR Gimbal:", type |-> "radio",
        options |-> <<"Professional", "Limited Experience", "No Experience">>],
       [question |-> "Rate yourself on your skill to setup and operate a DSLR Gimbal",
        type |-> "rating", scale |-> [min |-> 1, max |-> 10]],
       [question |-> "What are the various stages in shooting a product before it goes for grading? Explain briefly.",
        type |-> "textarea"],
       [question |-> "Please share your work links for reference", type |-> "textarea"],
       [question |-> "Can you edit videos?", type |-> "radio", options |-> <<"Yes", "No">>],
       [question |-> "Which software's can you edit on? Mention below", type |-> "radio",
        options |-> <<"FCP X", "Premiere Pro", "FCP 7", "Premiere Rush">>],
       [question |-> "How well can you colour grade on a scale of 1-10?", type |-> "rating",
        scale |-> [min |-> 1, max |-> 10, labels |-> [min |-> "Worst", max |-> "Best"]]],
       [question |-> "How well can you balance music on a scale of 1-10?", type |-> "rating",
        scale |-> [min |-> 1, max |-> 10]],
       [question |-> "How well can you select music for a video on a scale of 1-10?",
        type |-> "rating", scale |-> [min |-> 1, max |-> 10]],
       [question |-> "Can you animate as well?", type |-> "radio", options |-> <<"Yes", "No">>] >>

WriterQuestions ==
    << [question |-> "What do you enjoy the most about content writing?", type |-> "text"],
       [question |-> "What all kind of content have you written before?", type |-> "textarea"],
       [question |-> "How do you integrate SEO into your content?", type |-> "textarea"] >>

SocialQuestions ==
    << [question |-> "Will you be open to work as an intern if you don't have any experience?",
        type |-> "radio", options |-> <<"Yes", "No">>],
       [question |-> "Have you done any courses on social media with certification?",
        type |-> "radio", options |-> <<"Yes", "No", "Maybe">>],
       [question |-> "Can you edit photos and videos on a phone?", type |-> "checkbox",
        options |-> <<"Yes", "No">>],
       [question |-> "How well do you understand Facebook & Instagram when it comes to business tools?",
        type |-> "rating", scale |-> [min |-> 1, max |-> 10]],
       [question |-> "How many years of relevant experience do you have in Social Media?",
        type |-> "rating", scale |-> [min |-> 1, max |-> 10]] >>

SalesQuestions ==
    << [question |-> "Which companies have you worked before?", type |-> "textarea"],
       [question |-> "Have you built concepts for automotive products?", type |-> "radio",
        options |-> <<"Yes", "No">>],
       [question |-> "Which all car or related brands are your clientele?", type |-> "textarea"],
       [question |-> "What is your understanding about digital and videos on a scale of 1-5?",
        type |-> "rating", scale |-> [min |-> 1, max |-> 5]] >>

InternshipQuestions ==
    << [question |-> "Are you currently studying?", type |-> "text"],
       [question |-> "Can you dedicate 6 months for full time work?", type |-> "text"],
       [question |-> "We can offer Rs 8000 stipend per month - if ok then we proceed with your application",
        type |-> "text"] >>

commonQuestions ==
    << [question |-> "What interests you most about working in the automotive industry?",
        type |-> "textarea"],
       [question |-> "How do you stay updated with the latest automotive trends and technologies?",
        type |-> "textarea"] >>

\* The object literal of lines 210-241: its own keys and their values.
departmentQuestions ==
    [production |-> commonQuestions \o
        << [question |-> "What video production tools and software are you proficient in?", type |-> "textarea"],
           [question |-> "Describe your experience with automotive video content creation.", type |-> "textarea"],
           [question |-> "How would you handle filming in challenging automotive environments?", type |-> "textarea"] >>,
     consultancy |-> commonQuestions \o
        << [question |-> "What's your experience with automotive consulting or advisory services?", type |-> "textarea"],
           [question |-> "How do you approach client relationship management?", type |-> "textarea"],
           [question |-> "Share an example of a complex automotive problem you've solved.", type |-> "textarea"] >>,
     backend |-> commonQuestions \o
        << [question |-> "What programming languages and frameworks do you specialize in?", type |-> "textarea"],
           [question |-> "How would you design a system to handle high-traffic automotive content?", type |-> "textarea"],
           [question |-> "Describe your experience with database optimization for media-heavy applications.", type |-> "textarea"] >>,
     content |-> commonQuestions \o
        << [question |-> "What's your writing style when it comes to automotive content?", type |-> "textarea"],
           [question |-> "How do you research and fact-check automotive information?", type |-> "textarea"],
           [question |-> "Share examples of automotive content you've created that performed well.", type |-> "textarea"] >>,
     marketing |-> commonQuestions \o
        << [question |-> "How would you market MotorOctane to reach more car enthusiasts?", type |-> "textarea"],
           [question |-> "What social media strategies work best for automotive content?", type |-> "textarea"],
           [question |-> "Describe a successful automotive marketing campaign you admire.", type |-> "textarea"] >>]

(***************************************************************************)
(* getJobSpecificQuestions (lines 61-244)                                  *)
(***************************************************************************)

\* Lines 67-68.
isVideoTitle(title) ==
    \/ includes(title, "videographer")
    \/ includes(title, "video editor")
    \/ includes(title, "video")
    \/ includes(title, "editor")

\* Lines 122-123.
isWriterTitle(title) ==
    \/ includes(title, "content writer")
    \/ includes(title, "writer")
    \/ (includes(title, "content") /\ includes(title, "writer"))

\* Lines 141-142.
isSocialTitle(title) ==
    \/ includes(title, "social media")
    \/ includes(title, "content creation")
    \/ includes(title, "social")
    \/ includes(title, "content")

\* Line 173.
isSalesTitle(title) ==
    \/ includes(title, "media sales")
    \/ includes(toLowerCase(title), "sales")

\* isInternshipJob looking at the type only.
isInternshipJob_typeOnly(jobType, title) ==
    includes(jobType, "internship")

\* Line 197.
isInternshipJob(jobType, title) ==
    \/ includes(jobType, "internship")
    \/ includes(title, "internship")

\* departmentLookup without the generic questions to fall back on.
departmentLookup_noFallback(department) ==
    IF department \in DOMAIN departmentQuestions
    THEN departmentQuestions[department]
    ELSE <<>>

\* Line 243: departmentQuestions[department] || commonQuestions.
departmentLookup(department) ==
    IF department \in DOMAIN departmentQuestions
    THEN departmentQuestions[department]
    ELSE commonQuestions

\* getJobSpecificQuestions with the internship test moved before the role keywords.
getJobSpecificQuestions_internshipFirst(j) ==
    LET department == lowerOrEmpty(j.department)
        jobType    == lowerOrEmpty(j.type)
        title      == lowerOrEmpty(j.title)
    IN  IF isInternshipJob(jobType, title) THEN InternshipQuestions
        ELSE IF isVideoTitle(title) THEN VideoQuestions
        ELSE IF isWriterTitle(title) THEN WriterQuestions
        ELSE IF isSocialTitle(title) THEN SocialQuestions
        ELSE IF isSalesTitle(title) THEN SalesQuestions
        ELSE departmentLookup(department)

\* getJobSpecificQuestions with the social-media keywords tested before the writer ones.
getJobSpecificQuestions_socialFirst(j) ==
    LET department == lowerOrEmpty(j.department)
        jobType    == lowerOrEmpty(j.type)
        title      == lowerOrEmpty(j.title)
    IN  IF isVideoTitle(title) THEN VideoQuestions
        ELSE IF isSocialTitle(title) THEN SocialQuestions
        ELSE IF isWriterTitle(title) THEN WriterQuestions
        ELSE IF isSalesTitle(title) THEN SalesQuestions
        ELSE IF isInternshipJob(jobType, title) THEN InternshipQuestions
        ELSE departmentLookup(department)

\* getJobSpecificQuestions that gives an internship no questions.
getJobSpecificQuestions_internshipNone(j) ==
    LET department == lowerOrEmpty(j.department)
        jobType    == lowerOrEmpty(j.type)
        title      == lowerOrEmpty(j.title)
    IN  IF isVideoTitle(title) THEN VideoQuestions
        ELSE IF isWriterTitle(title) THEN WriterQuestions
        ELSE IF isSocialTitle(title) THEN SocialQuestions
        ELSE IF isSalesTitle(title) THEN SalesQuestions
        ELSE IF isInternshipJob(jobType, title) THEN <<>>
        ELSE departmentLookup(department)

\* getJobSpecificQuestions with a known department looked up before anything else.
getJobSpecificQuestions_departmentFirst(j) ==
    LET department == lowerOrEmpty(j.department)
        jobType    == lowerOrEmpty(j.type)
        title      == lowerOrEmpty(j.title)
    IN  IF department \in DOMAIN departmentQuestions THEN departmentQuestions[department]
        ELSE IF isVideoTitle(title) THEN VideoQuestions
        ELSE IF isWriterTitle(title) THEN WriterQuestions
        ELSE IF isSocialTitle(title) THEN SocialQuestions
        ELSE IF isSalesTitle(title) THEN SalesQuestions
        ELSE IF isInternshipJob(jobType, title) THEN InternshipQuestions
        ELSE commonQuestions

getJobSpecificQuestions(j) ==
    LET department == lowerOrEmpty(j.department)
        jobType    == lowerOrEmpty(j.type)
        title      == lowerOrEmpty(j.title)
    IN  IF isVideoTitle(title) THEN VideoQuestions
        ELSE IF isWriterTitle(title) THEN WriterQuestions
        ELSE IF isSocialTitle(title) THEN SocialQuestions
        ELSE IF isSalesTitle(title) THEN SalesQuestions
        ELSE IF isInternshipJob(jobType, title) THEN InternshipQuestions
        ELSE departmentLookup(department)

(***************************************************************************)
(* Step 1: the form values and their validation                            *)
(***************************************************************************)

BasicFields ==
    {"firstName", "lastName", "email", "phone", "canTravelToNaviMumbai",
     "currentSalary", "expectedSalary", "whyMotorOctane"}

\* defaultValues of basicForm, lines 267-276.
basicDefaults ==
    [firstName |-> "", lastName |-> "", email |-> "", phone |-> "",
     canTravelToNaviMumbai |-> undefined, currentSalary |-> "", expectedSalary |-> "",
     whyMotorOctane |-> ""]

Letters ==
    {"a", "b", "c", "d", "e", "f", "g", "h", "i", "j", "k", "l", "m", "n", "o", "p", "q",
     "r", "s", "t", "u", "v", "w", "x", "y", "z"} \cup DOMAIN UpperToLower

Digits == {"0", "1", "2", "3", "4", "5", "6", "7", "8", "9"}

Alnum == Letters \cup Digits

charAt(s, i) == SubSeq(s, i, i)

allIn(s, chars) == \A i \in 1..Len(s) : charAt(s, i) \in chars

\* The domain part of zod's email pattern: ([A-Z0-9][A-Z0-9\-]*\.)+[A-Z]{2,}
zodDomain(d) ==
    \E j \in 1..Len(d) :
        /\ charAt(d, j) = "."
        /\ LET labels == SubSeq(d, 1, j)
               tld    == SubSeq(d, j + 1, Len(d))
           IN  /\ Len(tld) >= 2
               /\ allIn(tld, Letters)
               /\ allIn(labels, Alnum \cup {"-", "."})
               /\ charAt(labels, 1) \in Alnum
               /\ \A k \in 1..(Len(labels) - 1) :
                      charAt(labels, k) = "." => charAt(labels, k + 1) \in Alnum

\* z.string().email(), line 35: zod's pattern
\*   ^(?!\.)(?!.*\.\.)([A-Z0-9_'+\-\.]*)[A-Z0-9_+-]@([A-Z0-9][A-Z0-9\-]*\.)+[A-Z]{2,}$  (case-insensitive)
zodEmail(s) ==
    \E i \in 1..Len(s) :
        /\ charAt(s, i) = "@"
        /\ LET local  == SubSeq(s, 1, i - 1)
               domain == SubSeq(s, i + 1, Len(s))
           IN  /\ Len(local) >= 1
               /\ allIn(local, Alnum \cup {"_", "'", "+", "-", "."})
               /\ charAt(local, Len(local)) \in Alnum \cup {"_", "+", "-"}
               /\ charAt(s, 1) # "."
               /\ ~includes(s, "..")
               /\ zodDomain(domain)

\* basicInfoSchema asking only for a non-empty motivation.
basicInfoSchema_anyMotivation(v) ==
    /\ Len(v.firstName) >= 1
    /\ Len(v.lastName) >= 1
    /\ zodEmail(v.email)
    /\ Len(v.phone) >= 1
    /\ v.canTravelToNaviMumbai \in {"yes", "no"}
    /\ Len(v.whyMotorOctane) >= 1

\* basicInfoSchema, lines 32-42. The form never sets cv (the file lives in cvFile), and
\* cv, currentSalary and expectedSalary are optional.
basicInfoSchema(v) ==
    /\ Len(v.firstName) >= 1
    /\ Len(v.lastName) >= 1
    /\ zodEmail(v.email)
    /\ Len(v.phone) >= 1
    /\ v.canTravelToNaviMumbai \in {"yes", "no"}
    /\ Len(v.whyMotorOctane) >= 10

\* The browser's check of <input type="email"> (line 499): empty, or
\* local@label(.label)* with every label starting and ending alphanumeric
\* (the backquote of the local part and the 63-character limit of a label are
\* beyond the inputs used here).
htmlEmail(s) ==
    \E i \in 1..Len(s) :
        /\ charAt(s, i) = "@"
        /\ LET local  == SubSeq(s, 1, i - 1)
               domain == SubSeq(s, i + 1, Len(s))
           IN  /\ Len(local) >= 1
               /\ allIn(local, Alnum \cup {".", "!", "#", "$", "%", "&", "'", "*", "+", "/",
                                           "=", "?", "^", "_", "{", "|", "}", "~", "-"})
               /\ Len(domain) >= 1
               /\ allIn(domain, Alnum \cup {"-", "."})
               /\ charAt(domain, 1) \in Alnum
               /\ charAt(domain, Len(domain)) \in Alnum
               /\ \A k \in 1..(Len(domain) - 1) :
                      charAt(domain, k) = "." =>
                          /\ charAt(domain, k + 1) \in Alnum
                          /\ k > 1 => charAt(domain, k - 1) \in Alnum

\* The form element of line 436 has no noValidate: the browser checks the email input
\* (type email, line 499) and the required textarea (line 663) before it fires submit.
nativeValid(v) ==
    /\ v.email = "" \/ htmlEmail(v.email)
    /\ v.whyMotorOctane # ""

(***************************************************************************)
(* The component's derived values and the mutation                         *)
(***************************************************************************)

\* isStepRequired with a threshold of more than three questions.
isStepRequired_moreThanThree == Len(jobSpecificQuestions) > 3

\* Line 262.
isStepRequired == Len(jobSpecificQuestions) > 0

\* submitApplication.isPending.
isPending == status = "pending"

\* defaultValues of jobSpecificForm, lines 282-287: every question answered ''.
answerDefaults(qs) ==
    [q \in {qs[i].question : i \in DOMAIN qs} |-> ""]

\* JSON.stringify of the question -> answer mapping (line 309), kept as a tagged value.
JSONstringify(m) == [json |-> m]

\* A FormData that carries the two salaries whether or not they are empty.
formData_alwaysSalaries(basicData, jobSpecificData) ==
    LET keys ==
            {"jobId", "firstName", "lastName", "email", "phone",
             "canTravelToNaviMumbai", "whyMotorOctane", "currentSalary", "expectedSalary"}
            \cup (IF cvFile # null THEN {"cv"} ELSE {})
            \cup (IF jobSpecificData # undefinedObject THEN {"jobSpecificAnswers"} ELSE {})
        value(k) ==
            CASE k = "jobId" -> job.id
              [] k = "cv" -> cvFile
              [] k = "jobSpecificAnswers" -> JSONstringify(jobSpecificData.questions)
              [] OTHER -> basicData[k]
    IN  [k \in keys |-> value(k)]

\* The FormData built by mutationFn, lines 292-310: field name -> value.
\* jobSpecificData is undefinedObject when mutate is called without it.
formData(basicData, jobSpecificData) ==
    LET keys ==
            {"jobId", "firstName", "lastName", "email", "phone",
             "canTravelToNaviMumbai", "whyMotorOctane"}
            \cup (IF cvFile # null THEN {"cv"} ELSE {})
            \cup (IF basicData.currentSalary \notin {"", undefined}
                  THEN {"currentSalary"} ELSE {})
            \cup (IF basicData.expectedSalary \notin {"", undefined}
                  THEN {"expectedSalary"} ELSE {})
            \cup (IF jobSpecificData # undefinedObject THEN {"jobSpecificAnswers"} ELSE {})
        value(k) ==
            CASE k = "jobId" -> job.id
              [] k = "cv" -> cvFile
              [] k = "jobSpecificAnswers" -> JSONstringify(jobSpecificData.questions)
              [] OTHER -> basicData[k]
    IN  [k \in keys |-> value(k)]

\* submitApplication.mutate: mutationFn runs up to the fetch of line 320.
mutate(basicData, jobSpecificData) ==
    /\ inflight' = Append(inflight, formData(basicData, jobSpecificData))
    /\ status' = "pending"

(***************************************************************************)
(* The checkbox widget of Step 2                                           *)
(***************************************************************************)

\* s.split(sep): the pieces of s between the occurrences of sep, from the left.
RECURSIVE split(_, _)
split(s, sep) ==
    LET hits == {i \in 1..(Len(s) - Len(sep) + 1) : SubSeq(s, i, i + Len(sep) - 1) = sep}
    IN  IF hits = {} THEN <<s>>
        ELSE LET i == CHOOSE h \in hits : \A g \in hits : h <= g
             IN  <<SubSeq(s, 1, i - 1)>> \o split(SubSeq(s, i + Len(sep), Len(s)), sep)

\* values.join(sep)
RECURSIVE join(_, _)
join(values, sep) ==
    IF Len(values) = 0 THEN ""
    ELSE IF Len(values) = 1 THEN values[1]
    ELSE values[1] \o sep \o join(Tail(values), sep)

\* v.trim() !== '' (lines 723, 736): v has a character that is not white space.
notBlank(v) == \E i \in 1..Len(v) : charAt(v, i) # " "

\* values.includes(option), for an array of strings.
arrayIncludes(values, option) == \E i \in DOMAIN values : values[i] = option

\* Lines 722-723 and 735-736: the options that the stored string holds.
currentValues(fieldValue) ==
    IF fieldValue \in {"", undefined} THEN <<>>
    ELSE SelectSeq(split(fieldValue, ", "), notBlank)

\* The click that puts a newly selected option in front of the others.
toggleOption_prepend(fieldValue, option) ==
    LET values == currentValues(fieldValue)
        newValues == IF arrayIncludes(values, option)
                     THEN SelectSeq(values, LAMBDA v : v # option)
                     ELSE <<option>> \o values
    IN  IF Len(newValues) > 0 THEN join(newValues, ", ") ELSE ""

\* The onClick of an option of a checkbox question, lines 734-747: the string
\* handed to field.onChange for the stored string fieldValue.
toggleOption(fieldValue, option) ==
    LET values == currentValues(fieldValue)
        newValues == IF arrayIncludes(values, option)
                     THEN SelectSeq(values, LAMBDA v : v # option)
                     ELSE Append(values, option)
    IN  IF Len(newValues) > 0 THEN join(newValues, ", ") ELSE ""

(***************************************************************************)
(* Responses, errors and toasts                                            *)
(***************************************************************************)

\* No toast has been shown yet.
noToast == [title |-> "", description |-> "", variant |-> "none"]

\* No request has finished yet.
noResponse == [kind |-> "none"]

\* The position of the first character c of s at or after from; 0 if there is none.
RECURSIVE indexOf(_, _, _)
indexOf(s, c, from) ==
    IF from > Len(s) THEN 0
    ELSE IF charAt(s, from) = c THEN from
    ELSE indexOf(s, c, from + 1)

\* The character of s at position i, or "" past its end.
at(s, i) == IF i >= 1 /\ i <= Len(s) THEN charAt(s, i) ELSE ""

\* The members "key":"value" of a JSON object from position i of s to its closing
\* brace, added to acc; ok is FALSE where the text is not of that form.
RECURSIVE parseMembers(_, _, _)
parseMembers(s, i, acc) ==
    LET keyEnd == indexOf(s, "\"", i + 1)
        valueStart == keyEnd + 2
        valueEnd == indexOf(s, "\"", valueStart + 1)
    IN  IF \/ at(s, i) # "\""
           \/ keyEnd = 0
           \/ at(s, keyEnd + 1) # ":"
           \/ at(s, valueStart) # "\""
           \/ valueEnd = 0
        THEN [ok |-> FALSE]
        ELSE LET key == SubSeq(s, i + 1, keyEnd - 1)
                 value == SubSeq(s, valueStart + 1, valueEnd - 1)
                 members == [k \in DOMAIN acc \cup {key} |->
                                IF k = key THEN value ELSE acc[k]]
             IN  IF at(s, valueEnd + 1) = "}" /\ valueEnd + 1 = Len(s)
                 THEN [ok |-> TRUE, value |-> members]
                 ELSE IF at(s, valueEnd + 1) = ","
                 THEN parseMembers(s, valueEnd + 2, members)
                 ELSE [ok |-> FALSE]

\* JSON.parse(text), line 329, for an object of string members written without
\* white space or escapes. Every other text gives ok = FALSE: it stands for a
\* parse that throws and for a value (null, a number, a string, an array) whose
\* details and error are absent, which line 330 and the catch of line 331 treat alike.
JSONparse(text) ==
    IF text = "{}" THEN [ok |-> TRUE, value |-> [k \in {} |-> ""]]
    ELSE IF at(text, 1) = "{" THEN parseMembers(text, 2, [k \in {} |-> ""])
    ELSE [ok |-> FALSE]

\* A property of a parsed object: undefined where it is absent.
property(obj, key) == IF key \in DOMAIN obj THEN obj[key] ELSE undefined

\* JavaScript's a || b on strings and undefined.
orElse(a, b) == IF a # undefined /\ a # "" THEN a ELSE b

\* errorDetails that prefers error to details.
errorDetails_errorFirst(text) ==
    LET json == JSONparse(text)
    IN  IF json.ok
        THEN orElse(property(json.value, "error"),
                    orElse(property(json.value, "details"), text))
        ELSE text

\* Lines 326-331: details of a response that is not ok, from its body text.
errorDetails(text) ==
    LET json == JSONparse(text)
    IN  IF json.ok
        THEN orElse(property(json.value, "details"),
                    orElse(property(json.value, "error"), text))
        ELSE text

\* The message of the Error that mutationFn throws for the failure f:
\* line 333 for a response that is not ok; the rejection of fetch (line 320) for a
\* network error; the rejection inside the catch of lines 336-339 for a 2xx body
\* that is not JSON.
errorMessage(f) ==
    IF f.kind = "http"
    THEN "Failed to submit application (HTTP " \o ToString(f.status) \o "). "
             \o errorDetails(f.text)
    ELSE f.message

\* The toast of onSuccess, lines 344-347.
successToast ==
    [title |-> "Application Submitted",
     description |-> "Your application has been successfully submitted. We'll be in touch soon!",
     variant |-> "default"]

\* The toast of onError, lines 353-357; what mutationFn throws is an Error.
errorToast(f) ==
    [title |-> "Error", description |-> errorMessage(f), variant |-> "destructive"]

\* The toast of onJobSpecificSubmit without basic info, lines 383-387.
missingInformationToast ==
    [title |-> "Missing Information",
     description |-> "Please complete step 1 first.",
     variant |-> "destructive"]

(***************************************************************************)
(* Inputs                                                                  *)
(***************************************************************************)

\* A cap on the requests that may be waiting for a response at once; the code has none.
MaxInFlight == 2

JobTitles ==
    {"Video Editor", "Videographer", "Content Writer", "Social Media Executive",
     "Media Sales Manager", "Marketing Internship", "Sales Intern", "Backend Developer",
     "Automotive Consultant", "SEO INTERNSHIP", "Content Creation Internship",
     "Editorial Writer", undefined}

JobTypes == {"Full-time", "Internship", undefined}

JobDepartments ==
    {"production", "consultancy", "backend", "content", "marketing", "Marketing",
     "CONTENT", "design", "", undefined}

\* The jobs the question selector is applied to.
JobInputs ==
    [id : {"job-1"}, title : JobTitles, type : JobTypes, department : JobDepartments]

\* The jobs the workflow is run for: an internship in a known department, and a
\* full-time job in a department the table does not know.
WorkflowJobs ==
    { [id |-> "job-1", title |-> "Marketing Internship", type |-> "Internship",
       department |-> "marketing"],
      [id |-> "job-2", title |-> "Office Manager", type |-> "Full-time",
       department |-> "operations"] }

ValidA ==
    [firstName |-> "Asha", lastName |-> "Rao", email |-> "asha@x.in", phone |-> "98",
     canTravelToNaviMumbai |-> "yes", currentSalary |-> "", expectedSalary |-> "",
     whyMotorOctane |-> "I love EVs"]

ValidB ==
    [firstName |-> "Ravi", lastName |-> "Iyer", email |-> "ravi@y.co", phone |-> "77",
     canTravelToNaviMumbai |-> "no", currentSalary |-> "5L", expectedSalary |-> "6L",
     whyMotorOctane |-> "Cars and me"]

\* What the Step-1 form may hold after the user has typed: the untouched form, two
\* complete forms, and a complete form whose motivation is one character short.
BasicInputs ==
    {basicDefaults, ValidA, ValidB, [ValidA EXCEPT !.whyMotorOctane = "I love EV"]}

\* Every combination of field values the validation is applied to.
AllBasicValues ==
    [firstName : {"", "Asha"}, lastName : {"", "Rao"},
     email : {"", "asha", "asha@x", "asha@x.in", "asha@x-.in"},
     phone : {"", "98"},
     canTravelToNaviMumbai : {undefined, "yes", "no"},
     currentSalary : {"", "5L"}, expectedSalary : {"", "6L"},
     whyMotorOctane : {"", "I love EV", "I love EVs", "Cars and me"}]

\* e.target.files?.[0] of the file input: a chosen file, or nothing.
FileInputs == {[name |-> "cv.pdf"], undefinedObject}

\* The ways a request can fail: a response that is not ok (its status and body
\* text), a rejected fetch, and a 2xx response whose body is not JSON. For the
\* last, response.text() after a failed response.json() reads a body that was
\* already consumed, so the Error is the one of line 338 or the one of text().
Failures ==
    { [kind |-> "http", status |-> 400,
       text |-> "{\"error\":\"Invalid job\",\"details\":\"Job not found\"}"],
      [kind |-> "http", status |-> 400,
       text |-> "{\"error\":\"Validation failed\",\"details\":\"\"}"],
      [kind |-> "http", status |-> 500, text |-> "{\"error\":\"Storage unavailable\"}"],
      [kind |-> "http", status |-> 500, text |-> "{\"message\":\"quota exceeded\"}"],
      [kind |-> "http", status |-> 502, text |-> "Bad Gateway"],
      [kind |-> "http", status |-> 504, text |-> ""],
      [kind |-> "network", message |-> "Failed to fetch"],
      [kind |-> "badBody", status |-> 200,
       message |-> "Failed to parse server response JSON. Raw: <html>"],
      [kind |-> "badBody", status |-> 200, message |-> "body stream already read"] }

\* One failure of each kind, for the workflow as a whole.
WorkflowFailures ==
    { [kind |-> "http", status |-> 400,
       text |-> "{\"error\":\"Invalid job\",\"details\":\"Job not found\"}"],
      [kind |-> "network", message |-> "Failed to fetch"],
      [kind |-> "badBody", status |-> 200,
       message |-> "Failed to parse server response JSON. Raw: <html>"] }

\* What the widget of a question can hand to field.onChange.
answerInputs(qc) ==
    CASE qc.type \in {"text", "textarea"} -> {"", "Yes"}
      [] qc.type = "radio" -> {qc.options[i] : i \in DOMAIN qc.options}
      [] qc.type = "rating" -> {ToString(n) : n \in qc.scale.min..qc.scale.max}
      [] OTHER -> {}

(***************************************************************************)
(* The storage layer: IStorage (src/server/storage.ts). The class behind   *)
(* it, GoogleSheetsStorage, is imported from ./googleSheetsStorage, which  *)
(* is not among the sources; the operations below follow the contract of   *)
(* spec.md, section 4.1, and the signatures of the interface.              *)
(***************************************************************************)

\* The variables of the component, which the storage layer never touches.
componentVars ==
    <<job, jobSpecificQuestions, open, cvFile, currentStep, basicInfo, basicForm,
      jobSpecificForm, status, inflight, toast, lastAccepted, lastResponse>>

\* Ids that the storage can generate or be asked about.
JobIds == {"job-1", "job-2"}
ApplicationIds == {"app-1", "app-2"}

\* The enumerated set of application statuses. Neither the sources nor spec.md
\* list its members: these four are placeholders for it.
ApplicationStatuses == {"pending", "reviewed", "accepted", "rejected"}

\* Statuses a caller can pass: status is any string (storage.ts, line 32).
StatusInputs == ApplicationStatuses \cup {"archived", ""}

\* notes?: string (storage.ts, line 32).
NotesInputs == {undefined, "call back"}

\* InsertJob values handed to createJob.
InsertJobInputs ==
    {[title |-> "Office Manager", department |-> "operations", type |-> "Full-time"]}

noRows == [id \in {} |-> null]

\* No storage call has returned yet.
noReturn == [op |-> "none"]

\* An empty spreadsheet.
StorageInit ==
    /\ jobs = noRows
    /\ applications = noRows
    /\ returned = noReturn

\* rows with the row of id set to row.
withRow(rows, id, row) ==
    [k \in DOMAIN rows \cup {id} |-> IF k = id THEN row ELSE rows[k]]

\* rows without the row of id.
withoutRow(rows, id) == [k \in DOMAIN rows \ {id} |-> rows[k]]

\* createJob(job), storage.ts line 22: a Job with a generated id, active by default.
createJob(id, data) ==
    /\ id \notin DOMAIN jobs
    /\ jobs' = withRow(jobs, id, [title |-> data.title, department |-> data.department,
                                  type |-> data.type, active |-> TRUE])
    /\ returned' = [op |-> "createJob", id |-> id]
    /\ lastOp' = "createJob"
    /\ UNCHANGED <<applications, componentVars>>

\* deleteJob that reports success whether or not the id was there.
deleteJob_reportsSuccess(id) ==
    /\ jobs' = withoutRow(jobs, id)
    /\ returned' = [op |-> "deleteJob", id |-> id, value |-> TRUE]
    /\ lastOp' = "deleteJob"
    /\ UNCHANGED <<applications, componentVars>>

\* deleteJob(id), storage.ts line 24: a hard removal; false on a missing id.
deleteJob(id) ==
    /\ jobs' = withoutRow(jobs, id)
    /\ returned' = [op |-> "deleteJob", id |-> id, value |-> id \in DOMAIN jobs]
    /\ lastOp' = "deleteJob"
    /\ UNCHANGED <<applications, componentVars>>

\* createApplication(application), storage.ts line 31: one new row with a
\* generated id. The first status of an application is not given; "pending"
\* stands for it.
createApplication(id, jobId) ==
    /\ id \notin DOMAIN applications
    /\ applications' = withRow(applications, id,
                               [jobId |-> jobId, status |-> "pending", notes |-> undefined])
    /\ returned' = [op |-> "createApplication", id |-> id]
    /\ lastOp' = "createApplication"
    /\ UNCHANGED <<jobs, componentVars>>

\* updateApplicationStatus that stores whatever status it is given.
updateApplicationStatus_openEnded(id, newStatus, notes) ==
    /\ IF id \notin DOMAIN applications
       THEN /\ returned' = [op |-> "updateApplicationStatus", id |-> id,
                            status |-> newStatus, outcome |-> "absent"]
            /\ UNCHANGED applications
       ELSE /\ applications' =
                   withRow(applications, id,
                           [jobId |-> applications[id].jobId, status |-> newStatus,
                            notes |-> IF notes = undefined
                                      THEN applications[id].notes ELSE notes])
            /\ returned' = [op |-> "updateApplicationStatus", id |-> id,
                            status |-> newStatus, outcome |-> "updated"]
    /\ lastOp' = "updateApplicationStatus"
    /\ UNCHANGED <<jobs, componentVars>>

\* updateApplicationStatus(id, status, notes?), storage.ts line 32: a status
\* outside the enumerated set is rejected; an unknown id gives no application;
\* otherwise the row gets the status, and the notes where they are given.
updateApplicationStatus(id, newStatus, notes) ==
    /\ IF newStatus \notin ApplicationStatuses
       THEN /\ returned' = [op |-> "updateApplicationStatus", id |-> id,
                            status |-> newStatus, outcome |-> "rejected"]
            /\ UNCHANGED applications
       ELSE IF id \notin DOMAIN applications
       THEN /\ returned' = [op |-> "updateApplicationStatus", id |-> id,
                            status |-> newStatus, outcome |-> "absent"]
            /\ UNCHANGED applications
       ELSE /\ applications' =
                   withRow(applications, id,
                           [jobId |-> applications[id].jobId, status |-> newStatus,
                            notes |-> IF notes = undefined
                                      THEN applications[id].notes ELSE notes])
            /\ returned' = [op |-> "updateApplicationStatus", id |-> id,
                            status |-> newStatus, outcome |-> "updated"]
    /\ lastOp' = "updateApplicationStatus"
    /\ UNCHANGED <<jobs, componentVars>>

(***************************************************************************)
(* The component                                                           *)
(***************************************************************************)

\* The state of the component after its first render for job.
InitComponent ==
    /\ jobSpecificQuestions = getJobSpecificQuestions(job)
    /\ cvFile = null
    /\ currentStep = 1
    /\ basicInfo = null
    /\ basicForm = basicDefaults
    /\ jobSpecificForm = answerDefaults(jobSpecificQuestions)
    /\ status = "idle"
    /\ inflight = <<>>
    /\ lastAccepted = null
    /\ toast = noToast
    /\ lastResponse = noResponse
    /\ StorageInit

Init ==
    /\ job \in WorkflowJobs
    /\ open = FALSE
    /\ InitComponent
    /\ lastOp = "init"

\* The parent shows the dialog (the open prop, line 248).
OpenDialog ==
    /\ ~open
    /\ open' = TRUE
    /\ lastOp' = "open"
    /\ UNCHANGED storageVars
    /\ UNCHANGED <<toast, lastResponse>>
    /\ UNCHANGED <<job, jobSpecificQuestions, cvFile, currentStep, basicInfo, basicForm,
                   jobSpecificForm, status, inflight, lastAccepted>>

\* The user dismisses the dialog: Dialog calls the onOpenChange prop (line 896).
CloseDialog ==
    /\ open
    /\ open' = FALSE
    /\ lastOp' = "close"
    /\ UNCHANGED storageVars
    /\ UNCHANGED <<toast, lastResponse>>
    /\ UNCHANGED <<job, jobSpecificQuestions, cvFile, currentStep, basicInfo, basicForm,
                   jobSpecificForm, status, inflight, lastAccepted>>

\* Lines 410-414, from the file input of Step 1 (line 601).
handleFileUpload(file) ==
    /\ open
    /\ currentStep = 1
    /\ cvFile' = IF file # undefinedObject THEN file ELSE cvFile
    /\ lastOp' = "handleFileUpload"
    /\ UNCHANGED storageVars
    /\ UNCHANGED <<toast, lastResponse>>
    /\ UNCHANGED <<job, jobSpecificQuestions, open, currentStep, basicInfo, basicForm,
                   jobSpecificForm, status, inflight, lastAccepted>>

\* The user types into the fields of Step 1 (field.onChange, basicForm.setValue);
\* the edits of several fields are taken together.
EditBasicForm(v) ==
    /\ open
    /\ currentStep = 1
    /\ basicForm' = v
    /\ lastOp' = "editBasicForm"
    /\ UNCHANGED storageVars
    /\ UNCHANGED <<toast, lastResponse>>
    /\ UNCHANGED <<job, jobSpecificQuestions, open, cvFile, currentStep, basicInfo,
                   jobSpecificForm, status, inflight, lastAccepted>>

\* onBasicInfoSubmit that stores the basic info only when none is stored yet.
onBasicInfoSubmit_keepFirst(data) ==
    /\ basicInfo' = IF basicInfo = null THEN data ELSE basicInfo
    /\ lastAccepted' = data
    /\ IF ~isStepRequired
       THEN /\ mutate(data, undefinedObject)
            /\ UNCHANGED currentStep
       ELSE /\ currentStep' = 2
            /\ UNCHANGED <<status, inflight>>
    /\ lastOp' = "onBasicInfoSubmit"
    /\ UNCHANGED storageVars
    /\ UNCHANGED <<toast, lastResponse>>
    /\ UNCHANGED <<job, jobSpecificQuestions, open, cvFile, basicForm, jobSpecificForm>>

\* onBasicInfoSubmit that moves on without storing the basic info.
onBasicInfoSubmit_noStore(data) ==
    /\ lastAccepted' = data
    /\ IF ~isStepRequired
       THEN /\ mutate(data, undefinedObject)
            /\ UNCHANGED currentStep
       ELSE /\ currentStep' = 2
            /\ UNCHANGED <<status, inflight>>
    /\ lastOp' = "onBasicInfoSubmit"
    /\ UNCHANGED storageVars
    /\ UNCHANGED <<toast, lastResponse>>
    /\ UNCHANGED <<job, jobSpecificQuestions, open, cvFile, basicInfo, basicForm,
                   jobSpecificForm>>

\* Lines 363-372.
onBasicInfoSubmit(data) ==
    /\ basicInfo' = data
    /\ lastAccepted' = data
    /\ IF ~isStepRequired
       THEN /\ mutate(data, undefinedObject)
            /\ UNCHANGED currentStep
       ELSE /\ currentStep' = 2
            /\ UNCHANGED <<status, inflight>>
    /\ lastOp' = "onBasicInfoSubmit"
    /\ UNCHANGED storageVars
    /\ UNCHANGED <<toast, lastResponse>>
    /\ UNCHANGED <<job, jobSpecificQuestions, open, cvFile, basicForm, jobSpecificForm>>

\* The submit button of Step 1 (lines 681-689) is disabled while the mutation is pending.
step1ButtonEnabled == ~isPending

\* The submit button of Step 2 without its disabled attribute.
step2ButtonEnabled_always == TRUE

\* The submit button of Step 2 (lines 881-888) is disabled while the mutation is pending.
step2ButtonEnabled == ~isPending

\* Submit of the Step-1 form with values that pass the browser's check and the schema:
\* basicForm.handleSubmit(onBasicInfoSubmit), line 436.
SubmitStep1Valid ==
    /\ open
    /\ currentStep = 1
    /\ step1ButtonEnabled
    /\ Len(inflight) < MaxInFlight
    /\ nativeValid(basicForm)
    /\ basicInfoSchema(basicForm)
    /\ onBasicInfoSubmit(basicForm)

\* A failed Step-1 submit that clears the form.
SubmitStep1Invalid_clearsForm ==
    /\ open
    /\ currentStep = 1
    /\ step1ButtonEnabled
    /\ ~(nativeValid(basicForm) /\ basicInfoSchema(basicForm))
    /\ basicForm' = basicDefaults
    /\ lastOp' = "basicFormInvalid"
    /\ UNCHANGED storageVars
    /\ UNCHANGED <<toast, lastResponse>>
    /\ UNCHANGED <<job, jobSpecificQuestions, open, cvFile, currentStep, basicInfo,
                   jobSpecificForm, status, inflight, lastAccepted>>

\* Submit of the Step-1 form with values that fail: the handler is not called.
SubmitStep1Invalid ==
    /\ open
    /\ currentStep = 1
    /\ step1ButtonEnabled
    /\ ~(nativeValid(basicForm) /\ basicInfoSchema(basicForm))
    /\ lastOp' = "basicFormInvalid"
    /\ UNCHANGED storageVars
    /\ UNCHANGED <<toast, lastResponse>>
    /\ UNCHANGED <<job, jobSpecificQuestions, open, cvFile, currentStep, basicInfo, basicForm,
                   jobSpecificForm, status, inflight, lastAccepted>>

\* field.onChange of the question at index i of Step 2 (lines 707-857).
SetAnswer(i, a) ==
    /\ open
    /\ currentStep = 2
    /\ jobSpecificForm' = [jobSpecificForm EXCEPT ![jobSpecificQuestions[i].question] = a]
    /\ lastOp' = "setAnswer"
    /\ UNCHANGED storageVars
    /\ UNCHANGED <<toast, lastResponse>>
    /\ UNCHANGED <<job, jobSpecificQuestions, open, cvFile, currentStep, basicInfo, basicForm,
                   status, inflight, lastAccepted>>

\* A click on the option at index o of the checkbox question at index i (lines 734-747).
ClickOption(i, o) ==
    /\ open
    /\ currentStep = 2
    /\ jobSpecificQuestions[i].type = "checkbox"
    /\ o \in DOMAIN jobSpecificQuestions[i].options
    /\ jobSpecificForm' =
           [jobSpecificForm EXCEPT ![jobSpecificQuestions[i].question] =
               toggleOption(@, jobSpecificQuestions[i].options[o])]
    /\ lastOp' = "clickOption"
    /\ UNCHANGED storageVars
    /\ UNCHANGED <<toast, lastResponse>>
    /\ UNCHANGED <<job, jobSpecificQuestions, open, cvFile, currentStep, basicInfo, basicForm,
                   status, inflight, lastAccepted>>

\* jobSpecificSchema, lines 45-47: a record of optional strings.
jobSpecificSchema(d) ==
    \A q \in DOMAIN d.questions : d.questions[q] = undefined \/ d.questions[q] \in STRING

\* Lines 375-394.
onJobSpecificSubmit(data) ==
    /\ IF basicInfo = null
       THEN /\ toast' = missingInformationToast
            /\ currentStep' = 1
            /\ UNCHANGED <<status, inflight>>
       ELSE /\ mutate(basicInfo, data)
            /\ UNCHANGED <<currentStep, toast>>
    /\ lastOp' = "onJobSpecificSubmit"
    /\ UNCHANGED storageVars
    /\ UNCHANGED lastResponse
    /\ UNCHANGED <<job, jobSpecificQuestions, open, cvFile, basicInfo, basicForm,
                   jobSpecificForm, lastAccepted>>

\* Submit of the Step-2 form: jobSpecificForm.handleSubmit(onJobSpecificSubmit), line 699.
\* handleSubmit calls the handler where the values pass the schema, and nothing otherwise.
SubmitStep2 ==
    /\ open
    /\ currentStep = 2
    /\ step2ButtonEnabled
    /\ Len(inflight) < MaxInFlight
    /\ IF jobSpecificSchema([questions |-> jobSpecificForm])
       THEN onJobSpecificSubmit([questions |-> jobSpecificForm])
       ELSE /\ lastOp' = "jobSpecificFormInvalid"
            /\ UNCHANGED <<job, jobSpecificQuestions, open, cvFile, currentStep, basicInfo,
                           basicForm, jobSpecificForm, status, inflight, toast, lastAccepted,
                           lastResponse, storageVars>>

\* goBack that also resets the Step-2 form.
goBack_resetAnswers ==
    /\ open
    /\ currentStep = 2
    /\ currentStep' = 1
    /\ jobSpecificForm' = answerDefaults(jobSpecificQuestions)
    /\ lastOp' = "goBack"
    /\ UNCHANGED storageVars
    /\ UNCHANGED <<toast, lastResponse>>
    /\ UNCHANGED <<job, jobSpecificQuestions, open, cvFile, basicInfo, basicForm,
                   status, inflight, lastAccepted>>

\* Lines 406-408, from the Back button of Step 2 (lines 871-880).
goBack ==
    /\ open
    /\ currentStep = 2
    /\ currentStep' = 1
    /\ lastOp' = "goBack"
    /\ UNCHANGED storageVars
    /\ UNCHANGED <<toast, lastResponse>>
    /\ UNCHANGED <<job, jobSpecificQuestions, open, cvFile, basicInfo, basicForm,
                   jobSpecificForm, status, inflight, lastAccepted>>

\* resetForms that leaves the stored basic info and the step as they are.
resetForms_keepsBasicInfo ==
    /\ basicForm' = basicDefaults
    /\ jobSpecificForm' = answerDefaults(jobSpecificQuestions)
    /\ cvFile' = null
    /\ UNCHANGED <<currentStep, basicInfo>>

\* Lines 397-403.
resetForms ==
    /\ basicForm' = basicDefaults
    /\ jobSpecificForm' = answerDefaults(jobSpecificQuestions)
    /\ cvFile' = null
    /\ currentStep' = 1
    /\ basicInfo' = null

\* The request at index i gets a 2xx response with a JSON body: onSuccess, lines 343-351.
\* The mutation's state follows the latest call of mutate.
ResponseOk(i) ==
    /\ inflight' = SubSeq(inflight, 1, i - 1) \o SubSeq(inflight, i + 1, Len(inflight))
    /\ status' = IF i = Len(inflight) THEN "success" ELSE status
    /\ toast' = successToast
    /\ resetForms
    /\ open' = FALSE
    /\ lastResponse' = [kind |-> "ok", status |-> 201]
    /\ lastOp' = "onSuccess"
    /\ UNCHANGED storageVars
    /\ UNCHANGED <<job, jobSpecificQuestions, lastAccepted>>

\* A failure that resets the workflow as a success does.
ResponseError_resets(i, f) ==
    /\ inflight' = SubSeq(inflight, 1, i - 1) \o SubSeq(inflight, i + 1, Len(inflight))
    /\ status' = IF i = Len(inflight) THEN "error" ELSE status
    /\ toast' = errorToast(f)
    /\ lastResponse' = f
    /\ resetForms
    /\ lastOp' = "onError"
    /\ UNCHANGED storageVars
    /\ UNCHANGED <<job, jobSpecificQuestions, open, lastAccepted>>

\* The request at index i fails in the way f (a non-2xx response, a network error,
\* or a body that is not JSON): mutationFn throws, onError, lines 352-359.
ResponseError(i, f) ==
    /\ inflight' = SubSeq(inflight, 1, i - 1) \o SubSeq(inflight, i + 1, Len(inflight))
    /\ status' = IF i = Len(inflight) THEN "error" ELSE status
    /\ toast' = errorToast(f)
    /\ lastResponse' = f
    /\ lastOp' = "onError"
    /\ UNCHANGED storageVars
    /\ UNCHANGED <<job, jobSpecificQuestions, open, cvFile, currentStep, basicInfo, basicForm,
                   jobSpecificForm, lastAccepted>>

Next ==
    \/ OpenDialog
    \/ CloseDialog
    \/ \E file \in FileInputs : handleFileUpload(file)
    \/ \E v \in BasicInputs : EditBasicForm(v)
    \/ SubmitStep1Valid
    \/ SubmitStep1Invalid
    \/ \E i \in DOMAIN jobSpecificQuestions :
           \E a \in answerInputs(jobSpecificQuestions[i]) : SetAnswer(i, a)
    \/ SubmitStep2
    \/ goBack
    \/ \E i \in DOMAIN inflight : ResponseOk(i)
    \/ \E i \in DOMAIN inflight : \E f \in WorkflowFailures : ResponseError(i, f)

Spec == Init /\ [][Next]_vars

(***************************************************************************)
(* The question selector on its own: the parent renders the form for a job *)
(***************************************************************************)

\* Before the parent has rendered the form, there is no job and no component state.
InitQ ==
    /\ job = null
    /\ jobSpecificQuestions = <<>>
    /\ open = FALSE
    /\ cvFile = null
    /\ currentStep = 1
    /\ basicInfo = null
    /\ basicForm = basicDefaults
    /\ jobSpecificForm = answerDefaults(<<>>)
    /\ status = "idle"
    /\ inflight = <<>>
    /\ lastAccepted = null
    /\ toast = noToast
    /\ lastResponse = noResponse
    /\ StorageInit
    /\ lastOp = "init"

\* The first render of the form for job j (lines 252-288): line 261 computes the questions.
Render(j) ==
    /\ job = null
    /\ job' = j
    /\ jobSpecificQuestions' = getJobSpecificQuestions(j)
    /\ jobSpecificForm' = answerDefaults(getJobSpecificQuestions(j))
    /\ lastOp' = "render"
    /\ UNCHANGED storageVars
    /\ UNCHANGED <<toast, lastResponse>>
    /\ UNCHANGED <<open, cvFile, currentStep, basicInfo, basicForm, status, inflight,
                   lastAccepted>>

NextQ == \E j \in JobInputs : Render(j)

SpecQ == InitQ /\ [][NextQ]_vars

(***************************************************************************)
(* The storage layer on its own: calls on an empty spreadsheet, with no    *)
(* form rendered                                                           *)
(***************************************************************************)

InitS == InitQ

NextS ==
    \/ \E id \in JobIds : \E data \in InsertJobInputs : createJob(id, data)
    \/ \E id \in JobIds : deleteJob(id)
    \/ \E id \in ApplicationIds : \E jobId \in JobIds : createApplication(id, jobId)
    \/ \E id \in ApplicationIds : \E s \in StatusInputs : \E notes \in NotesInputs :
           updateApplicationStatus(id, s, notes)

SpecS == InitS /\ [][NextS]_vars

(***************************************************************************)
(* The validation of Step 1 on its own: a submit of every combination of   *)
(* field values                                                            *)
(***************************************************************************)

InitV ==
    /\ job \in WorkflowJobs
    /\ open = TRUE
    /\ jobSpecificQuestions = getJobSpecificQuestions(job)
    /\ cvFile \in {null, [name |-> "cv.pdf"]}
    /\ currentStep = 1
    /\ basicInfo = null
    /\ basicForm \in AllBasicValues
    /\ jobSpecificForm = answerDefaults(jobSpecificQuestions)
    /\ status = "idle"
    /\ inflight = <<>>
    /\ lastAccepted = null
    /\ toast = noToast
    /\ lastResponse = noResponse
    /\ StorageInit
    /\ lastOp = "editBasicForm"

NextV == SubmitStep1Valid \/ SubmitStep1Invalid

SpecV == InitV /\ [][NextV]_vars

(***************************************************************************)
(* The failure of a request on its own: every way of failing, for a        *)
(* request that a submit has just sent                                     *)
(***************************************************************************)

\* The component right after the submit that sent a request: of Step 1 for a job
\* without questions, of Step 2 otherwise.
InitE ==
    /\ job \in WorkflowJobs
    /\ open = TRUE
    /\ jobSpecificQuestions = getJobSpecificQuestions(job)
    /\ cvFile \in {null, [name |-> "cv.pdf"]}
    /\ basicInfo \in {ValidA, ValidB}
    /\ basicForm = basicInfo
    /\ lastAccepted = basicInfo
    /\ currentStep = IF isStepRequired THEN 2 ELSE 1
    /\ jobSpecificForm \in
           {f \in [DOMAIN answerDefaults(jobSpecificQuestions) -> {"", "Yes", "No"}] :
               \A i \in DOMAIN jobSpecificQuestions :
                   f[jobSpecificQuestions[i].question]
                       \in {""} \cup answerInputs(jobSpecificQuestions[i])}
    /\ status = "pending"
    /\ inflight = <<formData(basicInfo,
                             IF isStepRequired THEN [questions |-> jobSpecificForm]
                             ELSE undefinedObject)>>
    /\ toast = noToast
    /\ lastResponse = noResponse
    /\ StorageInit
    /\ lastOp = IF isStepRequired THEN "onJobSpecificSubmit" ELSE "onBasicInfoSubmit"

NextE == \E f \in Failures : ResponseError(1, f)

SpecE == InitE /\ [][NextE]_vars

(***************************************************************************)
(* Step 1 on its own, for every job the question selector is applied to    *)
(***************************************************************************)

\* The dialog is open on the first render of the form for any job.
InitW ==
    /\ job \in JobInputs
    /\ open = TRUE
    /\ InitComponent
    /\ lastOp = "init"

NextW ==
    \/ \E v \in BasicInputs : EditBasicForm(v)
    \/ SubmitStep1Valid
    \/ SubmitStep1Invalid
    \/ goBack

SpecW == InitW /\ [][NextW]_vars

(***************************************************************************)
(* The answers of Step 2 on their own, for a job with a checkbox question  *)
(***************************************************************************)

\* A job that gets the social-media questions, the third of which is a checkbox.
CheckboxJob ==
    [id |-> "job-3", title |-> "Social Media Executive", type |-> "Full-time",
     department |-> "content"]

\* The component at Step 2, right after an accepted Step 1.
InitC ==
    /\ job = CheckboxJob
    /\ open = TRUE
    /\ jobSpecificQuestions = getJobSpecificQuestions(job)
    /\ cvFile = null
    /\ basicInfo \in {ValidA, ValidB}
    /\ basicForm = basicInfo
    /\ lastAccepted = basicInfo
    /\ currentStep = 2
    /\ jobSpecificForm = answerDefaults(jobSpecificQuestions)
    /\ status = "idle"
    /\ inflight = <<>>
    /\ toast = noToast
    /\ lastResponse = noResponse
    /\ StorageInit
    /\ lastOp = "onBasicInfoSubmit"

NextC ==
    \/ \E i \in DOMAIN jobSpecificQuestions :
           \E a \in answerInputs(jobSpecificQuestions[i]) : SetAnswer(i, a)
    \/ \E i \in DOMAIN jobSpecificQuestions : \E o \in 1..2 : ClickOption(i, o)

SpecC == InitC /\ [][NextC]_vars

(***************************************************************************)
(* Claims about the question selector (checked under SpecQ)                *)
(***************************************************************************)

\* The role keywords of the selection policy, by role.
RoleKeywords ==
    [video  |-> {"videographer", "video editor", "video", "editor"},
     writer |-> {"content writer", "writer"},
     social |-> {"social media", "content creation", "social", "content"},
     sales  |-> {"media sales", "sales"}]

RoleQuestionSet ==
    [video |-> VideoQuestions, writer |-> WriterQuestions, social |-> SocialQuestions,
     sales |-> SalesQuestions]

KnownDepartments == {"production", "consultancy", "backend", "content", "marketing"}

Rendered == job # null

TitleOf(j) == IF j.title = undefined THEN "" ELSE toLowerCase(j.title)

TitleMatchesRole(j, role) == \E k \in RoleKeywords[role] : includes(TitleOf(j), k)

TitleMatchesSomeRole(j) == \E role \in DOMAIN RoleKeywords : TitleMatchesRole(j, role)

IndicatesInternship(j) ==
    \/ j.type # undefined /\ includes(toLowerCase(j.type), "internship")
    \/ includes(TitleOf(j), "internship")

DepartmentOf(j) == IF j.department = undefined THEN "" ELSE toLowerCase(j.department)

QuestionTexts(qs) == [i \in DOMAIN qs |-> qs[i].question]

\* C1: one branch applies, in the priority role keyword, internship, department: a job
\* whose title has a role keyword gets one of the four role sets whatever its type and
\* department; without a role keyword, an internship gets the internship set whatever
\* its department; only the other jobs get a department set or the generic questions.
C1_FirstMatchingBranchOnly ==
    Rendered =>
        /\ TitleMatchesSomeRole(job) =>
               jobSpecificQuestions \in {RoleQuestionSet[r] : r \in DOMAIN RoleQuestionSet}
        /\ (~TitleMatchesSomeRole(job) /\ IndicatesInternship(job)) =>
               jobSpecificQuestions = InternshipQuestions
        /\ (~TitleMatchesSomeRole(job) /\ ~IndicatesInternship(job)) =>
               jobSpecificQuestions \in
                   {departmentQuestions[d] : d \in KnownDepartments} \cup {commonQuestions}

\* A job that satisfies all three branch conditions and got the role set.
C1_Witness ==
    /\ Rendered
    /\ job.title = "Sales Intern"
    /\ job.type = "Internship"
    /\ job.department = "marketing"
    /\ jobSpecificQuestions = SalesQuestions

\* C2: a job whose title has a role keyword gets the question set of a role whose
\* keyword the title has, in the listed order, and the same set for every department;
\* "Social Media Executive" in department content gets the 5 social-media questions.
C2_RoleSetWhateverDepartment ==
    (Rendered /\ TitleMatchesSomeRole(job)) =>
        /\ \E role \in DOMAIN RoleKeywords :
               /\ TitleMatchesRole(job, role)
               /\ jobSpecificQuestions = RoleQuestionSet[role]
        /\ \A d \in JobDepartments :
               getJobSpecificQuestions([job EXCEPT !.department = d]) = jobSpecificQuestions
        /\ job.title = "Social Media Executive" =>
               /\ Len(jobSpecificQuestions) = 5
               /\ QuestionTexts(jobSpecificQuestions) =
                      << "Will you be open to work as an intern if you don't have any experience?",
                         "Have you done any courses on social media with certification?",
                         "Can you edit photos and videos on a phone?",
                         "How well do you understand Facebook & Instagram when it comes to business tools?",
                         "How many years of relevant experience do you have in Social Media?" >>

\* "Social Media Executive" in department content, with the social-media questions.
C2_Witness ==
    /\ Rendered
    /\ job.title = "Social Media Executive"
    /\ job.department = "content"
    /\ jobSpecificQuestions = SocialQuestions
    /\ jobSpecificQuestions # departmentQuestions.content

\* C3: a job without a role keyword in its title whose type or title indicates an
\* internship gets exactly the 3 internship questions (studying, 6 months, stipend), in
\* that order, also in a known department.
C3_InternshipQuestions ==
    (Rendered /\ ~TitleMatchesSomeRole(job) /\ IndicatesInternship(job)) =>
        /\ Len(jobSpecificQuestions) = 3
        /\ QuestionTexts(jobSpecificQuestions) =
               << "Are you currently studying?",
                  "Can you dedicate 6 months for full time work?",
                  "We can offer Rs 8000 stipend per month - if ok then we proceed with your application" >>

\* The scenario: type Internship, title Marketing Internship, in department marketing.
C3_Witness ==
    /\ Rendered
    /\ job.title = "Marketing Internship"
    /\ job.type = "Internship"
    /\ job.department = "marketing"
    /\ Len(jobSpecificQuestions) = 3

RequiredRequestFields ==
    {"firstName", "lastName", "email", "phone", "canTravelToNaviMumbai", "whyMotorOctane"}

RequestSent == Len(inflight') > Len(inflight)

NewRequest == inflight'[Len(inflight')]

\* C6, as stated: for an internship job a valid Step-1 submit sends the request from
\* Step 1 and the workflow never shows Step 2.
C6_InternshipSkipsStep2 ==
    [][(IndicatesInternship(job) /\ lastOp' = "onBasicInfoSubmit") =>
           (currentStep' = 1 /\ RequestSent)]_vars

\* C6, amended: for an internship job a valid Step-1 submit stores the basic info,
\* moves the workflow from Step 1 to Step 2 and sends no request; a request is sent
\* only by the submit of Step 2.
C6_InternshipGoesToStep2 ==
    [][IndicatesInternship(job) =>
           /\ lastOp' = "onBasicInfoSubmit" =>
                  /\ currentStep = 1
                  /\ currentStep' = 2
                  /\ basicInfo' = basicForm
                  /\ inflight' = inflight
           /\ RequestSent => (currentStep = 2 /\ lastOp' = "onJobSpecificSubmit")]_vars

\* An internship job in Step 2, right after its valid Step-1 submit, with nothing sent.
C6_Witness ==
    /\ IndicatesInternship(job)
    /\ lastOp = "onBasicInfoSubmit"
    /\ currentStep = 2
    /\ basicInfo = basicForm
    /\ inflight = <<>>

\* C7: for a job that requires Step 2, every request is sent by the submit of Step 2
\* and carries the Step-2 answers as entered and the basic info of the latest accepted
\* Step-1 submit.
C7_RequestCarriesBothSteps ==
    [][(isStepRequired /\ RequestSent) =>
           /\ lastOp' = "onJobSpecificSubmit"
           /\ currentStep = 2
           /\ lastAccepted # null
           /\ "jobSpecificAnswers" \in DOMAIN NewRequest
           /\ NewRequest.jobSpecificAnswers = JSONstringify(jobSpecificForm)
           /\ \A f \in RequiredRequestFields : NewRequest[f] = lastAccepted[f]
           /\ \A f \in {"currentSalary", "expectedSalary"} :
                  f \in DOMAIN NewRequest => NewRequest[f] = lastAccepted[f]]_vars

\* A request in flight, sent from Step 2, that carries an entered answer and the basic
\* info of the latest accepted Step-1 submit.
C7_Witness ==
    /\ isStepRequired
    /\ Len(inflight) = 1
    /\ "jobSpecificAnswers" \in DOMAIN inflight[1]
    /\ inflight[1].firstName = ValidB.firstName
    /\ lastAccepted = ValidB
    /\ \E q \in DOMAIN jobSpecificForm : jobSpecificForm[q] # ""

C9_BackLosesNothing ==
    [][/\ lastOp' = "goBack" =>
              /\ currentStep = 2
              /\ currentStep' = 1
              /\ UNCHANGED <<basicForm, basicInfo, cvFile, jobSpecificForm, status, inflight>>
       /\ (lastOp' = "onBasicInfoSubmit" /\ currentStep' = 2) =>
              UNCHANGED <<jobSpecificForm, cvFile>>]_vars

\* Back has just been pressed with a CV chosen, basic info stored and an answer entered.
C9_Witness ==
    /\ lastOp = "goBack"
    /\ currentStep = 1
    /\ basicInfo # null
    /\ cvFile # null
    /\ basicForm = basicInfo
    /\ \E q \in DOMAIN jobSpecificForm : jobSpecificForm[q] # ""

(***************************************************************************)
(* Claims about the validation of Step 1 (checked under SpecV)             *)
(***************************************************************************)

\* An address local@domain: a local part of letters, digits and _ ' + - . that neither
\* starts nor ends with a dot nor has two dots in a row, and a domain of two or more
\* dot-separated labels of letters, digits and inner hyphens, the last of two or more
\* letters.
ValidAddress(e) ==
    \E i \in 1..Len(e) :
        /\ SubSeq(e, i, i) = "@"
        /\ \A k \in 1..Len(e) : SubSeq(e, k, k) = "@" => k = i
        /\ i > 1
        /\ LET dots   == {0, Len(e) + 1} \cup {k \in 1..Len(e) : SubSeq(e, k, k) = "."}
               edge(k) == k \in dots \/ k = i
               last   == CHOOSE k \in dots : k <= Len(e) /\ \A m \in dots : m <= Len(e) => m <= k
           IN  /\ \A k \in 1..Len(e) :
                      \/ SubSeq(e, k, k) \in Alnum \cup {"@", "."}
                      \/ k < i /\ SubSeq(e, k, k) \in {"_", "'", "+", "-"}
                      \/ k > i /\ SubSeq(e, k, k) = "-" /\ ~edge(k - 1) /\ ~edge(k + 1)
               /\ \A k \in dots : ~edge(k + 1) \/ k = Len(e) + 1
               /\ \A k \in dots : k >= 1 => ~(k - 1 = i)
               /\ last > i
               /\ Len(e) - last >= 2
               /\ \A k \in (last + 1)..Len(e) : SubSeq(e, k, k) \in Letters

\* The conditions of an acceptable Step-1 form.
AcceptableBasicInfo(v) ==
    /\ v.firstName # ""
    /\ v.lastName # ""
    /\ v.phone # ""
    /\ ValidAddress(v.email)
    /\ v.canTravelToNaviMumbai \in {"yes", "no"}
    /\ Len(v.whyMotorOctane) >= 10

\* C10: a submit of Step 1 runs onBasicInfoSubmit exactly when first name, last name
\* and phone are non-empty, the email is a valid address, the travel answer is yes or
\* no and the motivation has at least 10 characters; CV and salaries play no part.
C10_Step1AcceptedIffValid ==
    [][/\ lastOp' = "onBasicInfoSubmit" =>
              (AcceptableBasicInfo(basicForm) /\ basicInfo' = basicForm)
       /\ lastOp' = "basicFormInvalid" =>
              (~AcceptableBasicInfo(basicForm) /\ UNCHANGED basicInfo)]_vars

\* A form accepted with no CV and no salaries and a motivation of exactly 10 characters.
C10_Witness ==
    /\ lastOp = "onBasicInfoSubmit"
    /\ basicInfo = basicForm
    /\ cvFile = null
    /\ basicForm.currentSalary = ""
    /\ basicForm.expectedSalary = ""
    /\ Len(basicForm.whyMotorOctane) = 10

(***************************************************************************)
(* Claims about validation failures and closing (checked under Spec)       *)
(***************************************************************************)

\* C11, as stated: a Step-2 submit sends a request only if every generated question
\* has a non-empty answer.
C11_Step2NeedsEveryAnswer ==
    [][(lastOp' = "onJobSpecificSubmit" /\ RequestSent) =>
           \A q \in DOMAIN jobSpecificForm : jobSpecificForm[q] # ""]_vars

\* C12: a submit that fails validation, in Step 1 or in Step 2, changes neither the
\* step, the stored basic info, the entered values, the CV nor the mutation, and
\* sends no request.
C12_InvalidSubmitChangesNothing ==
    [][lastOp' \in {"basicFormInvalid", "jobSpecificFormInvalid"} =>
           UNCHANGED <<currentStep, basicInfo, basicForm, jobSpecificForm, cvFile,
                       status, inflight, open>>]_vars

\* A Step-1 submit has just failed validation, after Back, with basic info stored
\* from an earlier submit and other values entered since.
C12_Witness ==
    /\ lastOp = "basicFormInvalid"
    /\ currentStep = 1
    /\ basicInfo # null
    /\ basicForm # basicInfo
    /\ basicForm # basicDefaults
    /\ inflight = <<>>

\* C13, as stated: closing the dialog puts the step back to 1, clears the stored
\* basic info and the CV, clears both forms, and sends no request.
C13_CloseDiscardsState ==
    [][lastOp' = "close" =>
           /\ currentStep' = 1
           /\ basicInfo' = null
           /\ cvFile' = null
           /\ basicForm' = basicDefaults
           /\ jobSpecificForm' = answerDefaults(jobSpecificQuestions)
           /\ UNCHANGED inflight]_vars

(***************************************************************************)
(* Claims about the checkbox answer (checked under SpecC)                  *)
(***************************************************************************)

\* The checkbox questions with the options Yes and No.
YesNoCheckboxes ==
    {jobSpecificQuestions[i].question : i \in
        {k \in DOMAIN jobSpecificQuestions :
            /\ jobSpecificQuestions[k].type = "checkbox"
            /\ jobSpecificQuestions[k].options = <<"Yes", "No">>}}

\* The widget shows the option as selected (isChecked, line 724).
Selected(answer, option) == arrayIncludes(currentValues(answer), option)

\* C14, as stated: once both options of a Yes/No checkbox question are selected the
\* stored answer is "Yes, No", whatever the clicks were.
C14_BothSelectedIsYesNo ==
    \A q \in YesNoCheckboxes :
        (Selected(jobSpecificForm[q], "Yes") /\ Selected(jobSpecificForm[q], "No"))
            => jobSpecificForm[q] = "Yes, No"

\* The stored answers a click can lead to, from each stored answer.
AfterClick ==
    [none |-> {"Yes", "No"},
     yes |-> {"", "Yes, No"},
     no |-> {"", "No, Yes"},
     yesNo |-> {"Yes", "No"},
     noYes |-> {"Yes", "No"}]

AnswerName(answer) ==
    CASE answer = "" -> "none"
      [] answer = "Yes" -> "yes"
      [] answer = "No" -> "no"
      [] answer = "Yes, No" -> "yesNo"
      [] answer = "No, Yes" -> "noYes"

\* C14, amended: the stored answer of a Yes/No checkbox question lists the selected
\* options in the order of their selection, joined by ", ": a click on an unselected
\* option puts it last, a click on a selected option takes it out; so the answer is
\* one of "", "Yes", "No", "Yes, No", "No, Yes", without duplicate or empty element.
C14_SelectedInClickOrder ==
    [][\A q \in YesNoCheckboxes :
           /\ jobSpecificForm[q] \in {"", "Yes", "No", "Yes, No", "No, Yes"}
           /\ lastOp' = "clickOption" =>
                  jobSpecificForm'[q] \in AfterClick[AnswerName(jobSpecificForm[q])]]_vars

\* Both options are selected, No first.
C14_Witness ==
    /\ lastOp = "clickOption"
    /\ \E q \in YesNoCheckboxes : jobSpecificForm[q] = "No, Yes"

(***************************************************************************)
(* Claims about a failed request (C15 checked under SpecE)                 *)
(***************************************************************************)

\* What the message of a response that is not ok has to surface, for its body text:
\* details where the body is a JSON object with non-empty details, else its error
\* where that is non-empty, else the text itself.
Surfaced(text) ==
    LET json == JSONparse(text)
        has(key) == json.ok /\ key \in DOMAIN json.value /\ json.value[key] # ""
    IN  IF has("details") THEN json.value.details
        ELSE IF has("error") THEN json.value.error
        ELSE text

\* C15: for a response that is not ok the toast is the destructive toast "Error" whose
\* description is "Failed to submit application (HTTP <status>). " followed by the
\* details of a JSON body, its error where there are no details, and the raw text where
\* the body is not JSON; the mutation ends in error, the success toast is not shown
\* and the dialog is not closed.
C15_ErrorMessageSurfacesDetails ==
    [][(lastOp' = "onError" /\ lastResponse'.kind = "http") =>
           /\ toast'.title = "Error"
           /\ toast'.variant = "destructive"
           /\ toast'.description =
                  "Failed to submit application (HTTP " \o ToString(lastResponse'.status)
                      \o "). " \o Surfaced(lastResponse'.text)
           /\ includes(toast'.description, Surfaced(lastResponse'.text))
           /\ toast' # successToast
           /\ status' = "error"
           /\ UNCHANGED open]_vars

\* A 400 response with both error and details has arrived: the toast shows the details.
C15_Witness ==
    /\ lastOp = "onError"
    /\ lastResponse.kind = "http"
    /\ lastResponse.status = 400
    /\ toast.description = "Failed to submit application (HTTP 400). Job not found"
    /\ status = "error"
    /\ open

(***************************************************************************)
(* Claims about the storage layer (checked under SpecS)                    *)
(***************************************************************************)

\* C16: deleteJob of an id that is not in the job collection returns false and leaves
\* the collection as it is; after any deleteJob the id is gone, so deleteJob of the
\* same id right after it returns false; and deleteJob always returns a boolean.
C16_DeleteMissingIsFalse ==
    [][lastOp' = "deleteJob" =>
           /\ returned'.value \in BOOLEAN
           /\ returned'.id \notin DOMAIN jobs => (returned'.value = FALSE /\ jobs' = jobs)
           /\ returned'.id \notin DOMAIN jobs'
           /\ (lastOp = "deleteJob" /\ returned.id = returned'.id) => returned'.value = FALSE
           /\ UNCHANGED applications]_vars

\* deleteJob of a missing id has just returned false, with another job stored.
C16_Witness ==
    /\ lastOp = "deleteJob"
    /\ returned.value = FALSE
    /\ returned.id \notin DOMAIN jobs
    /\ DOMAIN jobs # {}

\* C17: updateApplicationStatus with a status outside the enumerated set is rejected
\* and changes no application, whether or not the id is stored; and every stored
\* status is one of the set.
C17_UnknownStatusRejected ==
    [][/\ (lastOp' = "updateApplicationStatus" /\ returned'.status \notin ApplicationStatuses) =>
              (returned'.outcome = "rejected" /\ applications' = applications)
       /\ \A id \in DOMAIN applications' :
              applications'[id].status \in ApplicationStatuses]_vars

\* An update of a stored application with an unknown status has just been rejected; the
\* application carries the status and the notes of an earlier update.
C17_Witness ==
    /\ lastOp = "updateApplicationStatus"
    /\ returned.outcome = "rejected"
    /\ returned.status = "archived"
    /\ returned.id \in DOMAIN applications
    /\ applications[returned.id].status = "reviewed"
    /\ applications[returned.id].notes = "call back"

(***************************************************************************)
(* Claims about the request and the response (checked under Spec)          *)
(***************************************************************************)

\* The fields a request may carry besides the required ones.
OptionalRequestFields == {"cv", "currentSalary", "expectedSalary", "jobSpecificAnswers"}

\* C18: every request carries jobId and the six required fields of the basic info,
\* with the job's id and the stored values; it carries currentSalary and
\* expectedSalary exactly when the stored value is non-empty, cv exactly when a file is
\* selected, and jobSpecificAnswers, the JSON of the question -> answer mapping of the
\* Step-2 form, exactly when the submit of Step 2 sent it; and it carries nothing else.
C18_RequestFields ==
    [][RequestSent =>
           /\ {"jobId"} \cup RequiredRequestFields \subseteq DOMAIN NewRequest
           /\ DOMAIN NewRequest \subseteq
                  {"jobId"} \cup RequiredRequestFields \cup OptionalRequestFields
           /\ NewRequest.jobId = job.id
           /\ \A f \in RequiredRequestFields : NewRequest[f] = basicInfo'[f]
           /\ \A f \in {"currentSalary", "expectedSalary"} :
                  /\ f \in DOMAIN NewRequest <=> basicInfo'[f] # ""
                  /\ f \in DOMAIN NewRequest => NewRequest[f] = basicInfo'[f]
           /\ "cv" \in DOMAIN NewRequest <=> cvFile # null
           /\ "cv" \in DOMAIN NewRequest => NewRequest.cv = cvFile
           /\ "jobSpecificAnswers" \in DOMAIN NewRequest <=> lastOp' = "onJobSpecificSubmit"
           /\ "jobSpecificAnswers" \in DOMAIN NewRequest =>
                  /\ NewRequest.jobSpecificAnswers = JSONstringify(jobSpecificForm)
                  /\ DOMAIN jobSpecificForm =
                         {jobSpecificQuestions[i].question : i \in DOMAIN jobSpecificQuestions}]_vars

\* A request in flight without the salaries and without a CV, but with the answers.
C18_Witness ==
    /\ Len(inflight) = 1
    /\ lastOp = "onJobSpecificSubmit"
    /\ DOMAIN inflight[1] = {"jobId"} \cup RequiredRequestFields \cup {"jobSpecificAnswers"}
    /\ basicInfo = ValidA
    /\ cvFile = null

\* A request in flight with both salaries and a CV.
C18_WitnessAllFields ==
    /\ Len(inflight) = 1
    /\ DOMAIN inflight[1] =
           {"jobId"} \cup RequiredRequestFields \cup OptionalRequestFields

\* C19: a failure of a request, of whatever kind, changes neither the step, the stored
\* basic info, the CV, the values of the two forms nor whether the dialog is open; it
\* ends the pending state, so the submit button of the step on screen is enabled
\* again; and no request is sent on its own.
C19_FailureChangesNothing ==
    [][lastOp' = "onError" =>
           /\ lastResponse'.kind \in {"http", "network", "badBody"}
           /\ UNCHANGED <<currentStep, basicInfo, cvFile, basicForm, jobSpecificForm, open>>
           /\ status = "pending"
           /\ status' = "error"
           /\ step1ButtonEnabled'
           /\ step2ButtonEnabled'
           /\ inflight' = <<>>]_vars

\* The submit of Step 2 has sent a request again after an earlier request failed: the
\* toast of the failure is still the latest, and the answers and the CV are there.
C19_Witness ==
    /\ lastOp = "onJobSpecificSubmit"
    /\ Len(inflight) = 1
    /\ toast.title = "Error"
    /\ lastResponse.kind = "network"
    /\ currentStep = 2
    /\ cvFile # null
    /\ \E q \in DOMAIN jobSpecificForm : jobSpecificForm[q] # ""

\* C20: a success, in whatever state it arrives, puts the step at 1, the stored basic
\* info and the CV at null and both forms at their defaults, shows the success toast
\* and asks the dialog to close; opening the dialog after it shows an empty Step 1.
C20_SuccessResets ==
    [][/\ lastOp' = "onSuccess" =>
              /\ currentStep' = 1
              /\ basicInfo' = null
              /\ cvFile' = null
              /\ basicForm' = basicDefaults
              /\ jobSpecificForm' = answerDefaults(jobSpecificQuestions)
              /\ open' = FALSE
              /\ toast' = successToast
              /\ inflight' = <<>>
       /\ (lastOp = "onSuccess" /\ lastOp' = "open") =>
              /\ currentStep' = 1
              /\ basicInfo' = null
              /\ cvFile' = null
              /\ basicForm' = basicDefaults
              /\ jobSpecificForm' = answerDefaults(jobSpecificQuestions)]_vars

\* A request is pending while the user has gone back to Step 1 and typed other values.
C20_PendingAfterBack ==
    /\ status = "pending"
    /\ Len(inflight) = 1
    /\ currentStep = 1
    /\ basicForm # basicInfo
    /\ cvFile # null

\* The success of a request has just reset the workflow and closed the dialog.
C20_Witness ==
    /\ lastOp = "onSuccess"
    /\ lastResponse.kind = "ok"
    /\ lastAccepted = ValidB
    /\ currentStep = 1
    /\ basicInfo = null
    /\ ~open

(***************************************************************************)
(* Claims about the invariants of the workflow (checked under Spec)        *)
(***************************************************************************)

\* C21: at Step 2 the stored basic info is never null: Step 2 is entered from Step 1
\* by onBasicInfoSubmit alone, which stores the basic info, and the basic info is
\* cleared by a success alone, which puts the step at 1. So onJobSpecificSubmit always
\* sends a request and stays at Step 2, and its Missing Information toast is never shown.
C21_Step2HasBasicInfo ==
    [][/\ currentStep = 2 => basicInfo # null
       /\ currentStep' = 2 => basicInfo' # null
       /\ (currentStep = 1 /\ currentStep' = 2) => lastOp' = "onBasicInfoSubmit"
       /\ (basicInfo # null /\ basicInfo' = null) =>
              (lastOp' = "onSuccess" /\ currentStep' = 1)
       /\ lastOp' = "onJobSpecificSubmit" => (RequestSent /\ UNCHANGED currentStep)
       /\ toast' # missingInformationToast]_vars

\* Step 2 is on screen again, with basic info stored, after an earlier application was
\* sent with success and the workflow was reset.
C21_Witness ==
    /\ currentStep = 2
    /\ basicInfo # null
    /\ toast = successToast
    /\ lastOp = "onBasicInfoSubmit"

(***************************************************************************)
(* Claims about the question list of every job (checked under SpecW)       *)
(***************************************************************************)

RoleOrder == <<"video", "writer", "social", "sales">>

\* C23: a title gets the set of the first role, in the order video/editor, writer,
\* social/content, sales, one of whose keywords it contains: a title with video or
\* editor gets the 10 videographer/editor questions whatever else it contains, and
\* Content Writer gets the 3 content-writer questions although it contains content.
C23_EarliestRoleWins ==
    Rendered =>
        /\ \A n \in DOMAIN RoleOrder :
               (/\ TitleMatchesRole(job, RoleOrder[n])
                /\ \A m \in 1..(n - 1) : ~TitleMatchesRole(job, RoleOrder[m]))
                   => jobSpecificQuestions = RoleQuestionSet[RoleOrder[n]]
        /\ (includes(TitleOf(job), "video") \/ includes(TitleOf(job), "editor"))
               => (jobSpecificQuestions = VideoQuestions /\ Len(jobSpecificQuestions) = 10)
        /\ (includes(TitleOf(job), "writer") /\ ~TitleMatchesRole(job, "video"))
               => (jobSpecificQuestions = WriterQuestions /\ Len(jobSpecificQuestions) = 3)
        /\ job.title = "Content Writer" => jobSpecificQuestions = WriterQuestions

\* Content Writer, in the department content, has got the content-writer questions.
C23_Witness ==
    /\ Rendered
    /\ job.title = "Content Writer"
    /\ job.department = "content"
    /\ TitleMatchesRole(job, "social")
    /\ jobSpecificQuestions = WriterQuestions

\* Editorial Writer, which contains editor and writer, has got the videographer/editor
\* questions.
C23_WitnessEditor ==
    /\ Rendered
    /\ job.title = "Editorial Writer"
    /\ TitleMatchesRole(job, "writer")
    /\ jobSpecificQuestions = VideoQuestions

====
